---- MODULE Spec2Model ----
(***************************************************************************)
(* Model of the AI subtitle translator (js/app.js, js/translator.js and    *)
(* the batcher module that js/app.js carries from line 733 on).            *)
(*                                                                         *)
(* Ten specifications share the variables:                                 *)
(*   Spec       the app: file load/remove, settings, Translate / Resume /  *)
(*              Discard / Escape, and one run of translateAllBatches with  *)
(*              the retry controller translateBatchWithRetry, one action   *)
(*              per stretch of code between two awaits;                    *)
(*   SpecOverlap  the same app with a second run started while a run is    *)
(*              in progress;                                               *)
(*   SpecStorage  the same app with a localStorage that fails;             *)
(*   SpecResume  the same app with a batch size that holds all entries;    *)
(*   SpecFiles  the same app with two subtitle files loaded in turn;       *)
(*   SpecLive   the same app with the calls of a run counted, under        *)
(*              fairness of the events a run waits for;                    *)
(*   SpecParse  parseAPIResponse applied to bounded response strings;      *)
(*   SpecSegment  createBatches applied to bounded entry sequences;        *)
(*   SpecRoundTrip  parseAPIResponse applied to formatEntriesForAPI's      *)
(*              rendering of bounded entry sequences;                      *)
(*   SpecContext  the first batch of a run with its reply parsed by        *)
(*              parseAPIResponse, and the second batch's context.          *)
(***************************************************************************)
EXTENDS Integers, Sequences, FiniteSets, TLC

\* ------------------------------------------------------------------------
\* Bounds of the model
\* ------------------------------------------------------------------------
\* entries of the subtitle file: 21 entries make 3 batches at size 10
NumEntries == 21
\* tokens a response string is built from (SpecParse)
MaxTokens == 4
\* entries of the batch a response is reconciled with (SpecParse)
MaxOriginals == 3
\* longest entry sequence given to createBatches on its own: beyond the
\* largest batch size, so that a batch of 100 is followed by another batch
MaxSegmentLen == 120

\* ------------------------------------------------------------------------
\* Program constants
\* ------------------------------------------------------------------------
MinBatchSize == 10
MaxBatchSize == 100
contextOverlap == 3
contextTail == 3
maxRetries == 5
baseDelay == 15000
jitterRange == 2000
BATCH_DELAY == 4000

Max(a, b) == IF a >= b THEN a ELSE b
Min(a, b) == IF a <= b THEN a ELSE b

\* Array.prototype.slice(from, to) with 0-based offsets, 0 <= from
slice(s, from, to) == SubSeq(s, from + 1, Min(to, Len(s)))

RECURSIVE Pow2(_)
Pow2(n) == IF n = 0 THEN 1 ELSE 2 * Pow2(n - 1)

\* ------------------------------------------------------------------------
\* Characters and strings.  A string is a sequence of characters; the
\* characters are named by their class: newline, blank, dash, the two
\* brackets, a digit, a letter of a translation, a letter of an original.
\* ------------------------------------------------------------------------
Chars == {"nl", "sp", "dash", "lb", "rb", "dg", "x", "o"}
Whitespace == {"nl", "sp"}

\* ------------------------------------------------------------------------
\* Batcher: createBatches
\* ------------------------------------------------------------------------
\* mutant: the requested size taken as it is
actualBatchSizeUnclamped(batchSize) == Max(1, batchSize)

actualBatchSize(batchSize) == Max(MinBatchSize, Min(batchSize, MaxBatchSize))

\* mutant: the context reaches into the batch
contextEntriesOfInclusive(entries, startIndex) ==
    slice(entries, Max(0, startIndex - contextOverlap), startIndex + 1)

\* contextEntries of the batch that starts at startIndex
contextEntriesOf(entries, startIndex) ==
    LET contextStart == Max(0, startIndex - contextOverlap)
    IN  IF startIndex > 0 THEN slice(entries, contextStart, startIndex) ELSE << >>

RECURSIVE createBatchesFromSkip(_, _, _, _)
\* mutant: an entry is lost between two batches
createBatchesFromSkip(entries, size, currentIndex, batchIndex) ==
    IF currentIndex >= Len(entries) THEN << >>
    ELSE LET startIndex == currentIndex
             endIndex == Min(currentIndex + size, Len(entries))
         IN  << [index |-> batchIndex,
                 entries |-> slice(entries, startIndex, endIndex),
                 contextEntries |-> contextEntriesOf(entries, startIndex),
                 startIndex |-> startIndex,
                 endIndex |-> endIndex] >>
             \o createBatchesFromSkip(entries, size, endIndex + 1, batchIndex + 1)

RECURSIVE createBatchesFrom(_, _, _, _)
createBatchesFrom(entries, size, currentIndex, batchIndex) ==
    IF currentIndex >= Len(entries) THEN << >>
    ELSE LET startIndex == currentIndex
             endIndex == Min(currentIndex + size, Len(entries))
         IN  << [index |-> batchIndex,
                 entries |-> slice(entries, startIndex, endIndex),
                 contextEntries |-> contextEntriesOf(entries, startIndex),
                 startIndex |-> startIndex,
                 endIndex |-> endIndex] >>
             \o createBatchesFrom(entries, size, endIndex, batchIndex + 1)

createBatches(entries, batchSize) ==
    IF Len(entries) = 0 THEN << >>
    ELSE createBatchesFrom(entries, actualBatchSize(batchSize), 0, 0)

RECURSIVE SumEntries(_, _)
\* number of entries in the first k batches
SumEntries(batches, k) ==
    IF k = 0 THEN 0 ELSE Len(batches[k].entries) + SumEntries(batches, k - 1)

getBatchStats(batches) ==
    [totalBatches |-> Len(batches), totalEntries |-> SumEntries(batches, Len(batches))]

\* ------------------------------------------------------------------------
\* Batcher: parseAPIResponse
\* ------------------------------------------------------------------------
RECURSIVE DashRun(_, _)
\* number of consecutive dashes of s from position p on
DashRun(s, p) ==
    IF p <= Len(s) /\ s[p] = "dash" THEN 1 + DashRun(s, p + 1) ELSE 0

\* /\n---\n|\n-{3,}\n/ matched at position p: the position after the match,
\* 0 when there is no match at p
SeparatorEnd(s, p) ==
    IF p <= Len(s) /\ s[p] = "nl"
    THEN LET d == DashRun(s, p + 1)
         IN  IF d >= 3 /\ p + 1 + d <= Len(s) /\ s[p + 1 + d] = "nl"
             THEN p + d + 2 ELSE 0
    ELSE 0

RECURSIVE splitFrom(_, _, _)
\* String.prototype.split on the separator: scan from p, the open block
\* began at start
splitFrom(s, p, start) ==
    IF p > Len(s) THEN << SubSeq(s, start, Len(s)) >>
    ELSE IF SeparatorEnd(s, p) > 0
         THEN << SubSeq(s, start, p - 1) >>
              \o splitFrom(s, SeparatorEnd(s, p), SeparatorEnd(s, p))
         ELSE splitFrom(s, p + 1, start)

split(s) == splitFrom(s, 1, 1)

RECURSIVE trimStart(_)
trimStart(s) ==
    IF Len(s) > 0 /\ s[1] \in Whitespace THEN trimStart(Tail(s)) ELSE s

RECURSIVE trimEnd(_)
trimEnd(s) ==
    IF Len(s) > 0 /\ s[Len(s)] \in Whitespace
    THEN trimEnd(SubSeq(s, 1, Len(s) - 1)) ELSE s

trim(s) == trimEnd(trimStart(s))

RECURSIVE DigitRun(_, _)
DigitRun(s, p) ==
    IF p <= Len(s) /\ s[p] = "dg" THEN 1 + DigitRun(s, p + 1) ELSE 0

\* block.match(/^\[(\d+)\]\n?([\s\S]*)/): does the block begin with a marker
indexMatch(block) ==
    /\ Len(block) >= 3
    /\ block[1] = "lb"
    /\ DigitRun(block, 2) >= 1
    /\ 2 + DigitRun(block, 2) <= Len(block)
    /\ block[2 + DigitRun(block, 2)] = "rb"

\* group 2 of the match: what follows the marker and one optional newline
indexMatchRest(block) ==
    LET after == 3 + DigitRun(block, 2)
        from == IF after <= Len(block) /\ block[after] = "nl"
                THEN after + 1 ELSE after
    IN  SubSeq(block, from, Len(block))

\* mutant: the marker stays in the text
translatedTextOfWhole(block) == block

translatedTextOf(block) ==
    IF indexMatch(block) THEN trim(indexMatchRest(block)) ELSE block

RECURSIVE parseBlocks(_, _, _, _)
\* the for loop over the blocks, from 0-based position i on
parseBlocks(blocks, originalEntries, i, translatedEntries) ==
    IF ~(i < Len(blocks) /\ i < Len(originalEntries)) THEN translatedEntries
    ELSE LET block == trim(blocks[i + 1])
             original == originalEntries[i + 1]
         IN  IF block = << >>
             THEN parseBlocks(blocks, originalEntries, i + 1, translatedEntries)
             ELSE parseBlocks(blocks, originalEntries, i + 1,
                     Append(translatedEntries,
                            [index |-> original.index,
                             startTime |-> original.startTime,
                             endTime |-> original.endTime,
                             text |-> translatedTextOf(block)]))

\* mutant: the padding loop left out
fillRemainingNone(translatedEntries, originalEntries) == translatedEntries

RECURSIVE fillRemainingBlank(_, _)
\* mutant: the padding leaves the text empty
fillRemainingBlank(translatedEntries, originalEntries) ==
    IF ~(Len(translatedEntries) < Len(originalEntries)) THEN translatedEntries
    ELSE LET original == originalEntries[Len(translatedEntries) + 1]
         IN  fillRemainingBlank(Append(translatedEntries,
                                       [index |-> original.index,
                                        startTime |-> original.startTime,
                                        endTime |-> original.endTime,
                                        text |-> << >>]),
                                originalEntries)

RECURSIVE fillRemaining(_, _)
\* the while loop that pads with the original text
fillRemaining(translatedEntries, originalEntries) ==
    IF ~(Len(translatedEntries) < Len(originalEntries)) THEN translatedEntries
    ELSE LET original == originalEntries[Len(translatedEntries) + 1]
         IN  fillRemaining(Append(translatedEntries,
                                  [index |-> original.index,
                                   startTime |-> original.startTime,
                                   endTime |-> original.endTime,
                                   text |-> original.text]),
                           originalEntries)

parseAPIResponse(response, originalEntries) ==
    fillRemaining(parseBlocks(split(response), originalEntries, 0, << >>),
                  originalEntries)

\* `[${entry.index}]\n${entry.text}`: the index is rendered as a digit
formatEntryForAPI(entry) == << "lb", "dg", "rb", "nl" >> \o entry.text

RECURSIVE formatEntriesForAPI(_)
\* the entries' renderings joined by '\n---\n'
formatEntriesForAPI(entries) ==
    IF Len(entries) = 0 THEN << >>
    ELSE IF Len(entries) = 1 THEN formatEntryForAPI(entries[1])
    ELSE formatEntryForAPI(entries[1])
         \o << "nl", "dash", "dash", "dash", "nl" >>
         \o formatEntriesForAPI(Tail(entries))

\* ------------------------------------------------------------------------
\* Entries, files and the translate stub
\* ------------------------------------------------------------------------
\* names of the subtitle files the user can load; '' is no file
FileNames == {"a.srt"}
NoFile == ""
\* values of the batch size control
BatchSizes == {10, 20}

\* state.parsedSubtitle.entries of a loaded file
entriesOf(f) ==
    [k \in 1..NumEntries |->
        [index |-> k, startTime |-> 10 * k, endTime |-> 10 * k + 9,
         text |-> [file |-> f, of |-> k, translated |-> FALSE, ctx |-> << >>]]]

Last(s) == s[Len(s)]

\* formatContextForAPI: each context entry paired by position with the
\* translation at the same position, when there is one
formatContextForAPI(contextEntries, translatedContext) ==
    [j \in 1..Len(contextEntries) |->
        [original |-> contextEntries[j].text,
         translation |-> IF j <= Len(translatedContext)
                         THEN << translatedContext[j].text >> ELSE << >>]]

\* createTranslationPrompt: what the reply can depend on besides the entries
createTranslationPrompt(entries, contextEntries, translatedContext) ==
    IF Len(contextEntries) > 0
    THEN formatContextForAPI(contextEntries, translatedContext)
    ELSE << >>

\* mutant: the translated entries are shifted in time
translateBatchRetimed(batch, translatedContext) ==
    [k \in 1..Len(batch.entries) |->
        [index |-> batch.entries[k].index,
         startTime |-> batch.entries[k].startTime + 1,
         endTime |-> batch.entries[k].endTime + 1,
         text |-> [file |-> batch.entries[k].text.file,
                   of |-> batch.entries[k].text.of,
                   translated |-> TRUE,
                   ctx |-> createTranslationPrompt(batch.entries,
                               batch.contextEntries, translatedContext)]]]

\* translateBatch with a deterministic provider whose reply is well formed
\* (one marked block per entry): parseAPIResponse then gives each entry of
\* the batch its translated text, a function of the entry and the prompt
translateBatch(batch, translatedContext) ==
    [k \in 1..Len(batch.entries) |->
        [index |-> batch.entries[k].index,
         startTime |-> batch.entries[k].startTime,
         endTime |-> batch.entries[k].endTime,
         text |-> [file |-> batch.entries[k].text.file,
                   of |-> batch.entries[k].text.of,
                   translated |-> TRUE,
                   ctx |-> createTranslationPrompt(batch.entries,
                               batch.contextEntries, translatedContext)]]]

\* ------------------------------------------------------------------------
\* Errors.  An error is its kind and the retry-signalling substrings its
\* message contains.
\* ------------------------------------------------------------------------
RetryNeedles == {"Rate limit", "429", "Too Many", "Empty response",
                 "empty candidates", "No response from Gemini"}

\* callGeminiAPI: the errors it throws
RateLimitError == [kind |-> "RateLimit", needles |-> {"Rate limit"}]
EmptyResponseError == [kind |-> "EmptyResponse", needles |-> {"Empty response"}]
InvalidKeyError == [kind |-> "InvalidKey", needles |-> {}]
ServerError == [kind |-> "ServerError", needles |-> {}]
\* 'Invalid request: ' followed by the provider's own message
InvalidRequestError(providerNeedles) ==
    [kind |-> "InvalidRequest", needles |-> providerNeedles]
\* 'Content blocked: ' followed by the provider's block reason
ContentBlockedError == [kind |-> "ContentBlocked", needles |-> {}]
\* 'API error: ' followed by the provider's own message (other statuses)
ApiError(providerNeedles) == [kind |-> "ApiError", needles |-> providerNeedles]
CancelledError == [kind |-> "Cancelled", needles |-> {}]
\* reading state.parsedSubtitle.entries while state.parsedSubtitle is null
NullDereference == [kind |-> "TypeError", needles |-> {}]

CallErrors == {RateLimitError, EmptyResponseError, InvalidKeyError, ServerError,
               InvalidRequestError({}), InvalidRequestError({"Rate limit"}),
               ContentBlockedError, ApiError({})}

\* mutant: every error is retried
isRetryableAlways(error) == TRUE

isRetryable(error) == error.needles \cap RetryNeedles # {}

\* ------------------------------------------------------------------------
\* State
\* ------------------------------------------------------------------------
VARIABLES
    \* the app (state object, controls, localStorage)
    file,               \* state.fileName; state.parsedSubtitle is its entries
    batchSizeInput,     \* elements.batchSize.value
    storage,            \* localStorage[PROGRESS_KEY]: << >> or << checkpoint >>
    storageWorks,       \* localStorage is usable: its methods do not throw
    resumeBanner,       \* the resume banner is shown
    isTranslating,      \* state.isTranslating
    abortController,    \* state.abortController: "null", "clear", "aborted"
    \* the run (locals of startTranslation, translateAllBatches and
    \* translateBatchWithRetry, kept across awaits)
    pc,                 \* "idle", "call", "backoff", "batchDelay"
    batches,
    batchSize,
    startFromBatch,
    i,
    attempt,
    allTranslatedEntries,
    lastError,          \* << >> or << error >>
    completedEntries,
    timer,              \* duration of the pending setTimeout, 0 when none
    \* observations of the run
    emitted,            \* the onBatchComplete invocations of the run, in order,
                        \* each with the progress count it found
    outcome,            \* how the last run ended
    atStart,            \* allTranslatedEntries when the current batch began
    lastWaiting,        \* << >> or << the last onWaiting invocation >>
    waitCount,          \* onWaiting invocations of the current controller call
    callsMade,          \* translateBatch calls of the current controller call
    failures,           \* of them, the calls that were rejected
    resumedFrom,        \* << >> or << the checkpoint the run was seeded with >>
    controller,         \* << >> or << how the last controller call ended >>
    lastCallBatch,      \* batch of the latest translateBatch call, -1 if none
    inFlight,           \* translateBatch calls awaiting their reply
    storageBatches,     \* batches of the run that wrote the checkpoint
    storageClean,       \* the checkpoint stems from runs over one batching
    runClean,           \* this run is fresh or resumes its own batching
    cancelledAt,        \* << >> or << where the run stood when Escape aborted it >>
    \* a run started while another run is in progress (SpecOverlap)
    second,             \* << >> or << the run's locals and observations >>
    \* the translate calls of the current run, counted (SpecLive)
    callsOfRun,
    \* parseAPIResponse on its own (SpecParse)
    response,
    originalEntries,
    parsed,             \* << >> or << parseAPIResponse(response, originalEntries) >>
    \* createBatches on its own (SpecSegment)
    segmentEntries,
    segmentSize,
    segments            \* << >> or << createBatches(segmentEntries, segmentSize) >>

appVars == << file, batchSizeInput, storage, storageWorks, resumeBanner,
              isTranslating, abortController >>
runVars == << pc, batches, batchSize, startFromBatch, i, attempt,
              allTranslatedEntries, lastError, completedEntries, timer >>
obsVars == << emitted, outcome, atStart, lastWaiting, waitCount, callsMade,
              failures, resumedFrom, controller,
              lastCallBatch, inFlight, storageBatches, storageClean, runClean,
              cancelledAt >>
parseVars == << response, originalEntries, parsed >>
segmentVars == << segmentEntries, segmentSize, segments >>
\* what the actions of the app and of the run leave alone
pureVars == << parseVars, segmentVars, callsOfRun >>
vars == << appVars, runVars, obsVars, second, pureVars >>

\* status: "none", "running", "returned", "failed"; error: what startTranslation
\* caught; cause: which throw ended the run; batch: the batch it ended in
NoOutcome == [status |-> "none", error |-> << >>, cause |-> "none", batch |-> 0]

\* the state as one record, so that a stretch of code is a function on it;
\* thrown is the exception in flight, if any
Cur ==
    [file |-> file, batchSizeInput |-> batchSizeInput, storage |-> storage,
     storageWorks |-> storageWorks,
     resumeBanner |-> resumeBanner, isTranslating |-> isTranslating,
     abortController |-> abortController,
     pc |-> pc, batches |-> batches, batchSize |-> batchSize,
     startFromBatch |-> startFromBatch, i |-> i, attempt |-> attempt,
     allTranslatedEntries |-> allTranslatedEntries, lastError |-> lastError,
     completedEntries |-> completedEntries, timer |-> timer,
     emitted |-> emitted, outcome |-> outcome, atStart |-> atStart,
     lastWaiting |-> lastWaiting, waitCount |-> waitCount, controller |-> controller,
     callsMade |-> callsMade, failures |-> failures, resumedFrom |-> resumedFrom,
     lastCallBatch |-> lastCallBatch, inFlight |-> inFlight,
     storageBatches |-> storageBatches, storageClean |-> storageClean,
     runClean |-> runClean, cancelledAt |-> cancelledAt,
     thrown |-> << >>]

Commit(s) ==
    /\ file' = s.file
    /\ batchSizeInput' = s.batchSizeInput
    /\ storage' = s.storage
    /\ storageWorks' = s.storageWorks
    /\ resumeBanner' = s.resumeBanner
    /\ isTranslating' = s.isTranslating
    /\ abortController' = s.abortController
    /\ pc' = s.pc
    /\ batches' = s.batches
    /\ batchSize' = s.batchSize
    /\ startFromBatch' = s.startFromBatch
    /\ i' = s.i
    /\ attempt' = s.attempt
    /\ allTranslatedEntries' = s.allTranslatedEntries
    /\ lastError' = s.lastError
    /\ completedEntries' = s.completedEntries
    /\ timer' = s.timer
    /\ emitted' = s.emitted
    /\ outcome' = s.outcome
    /\ atStart' = s.atStart
    /\ lastWaiting' = s.lastWaiting
    /\ waitCount' = s.waitCount
    /\ callsMade' = s.callsMade
    /\ failures' = s.failures
    /\ resumedFrom' = s.resumedFrom
    /\ controller' = s.controller
    /\ lastCallBatch' = s.lastCallBatch
    /\ inFlight' = s.inFlight
    /\ storageBatches' = s.storageBatches
    /\ storageClean' = s.storageClean
    /\ runClean' = s.runClean
    /\ cancelledAt' = s.cancelledAt

\* ------------------------------------------------------------------------
\* app.js: persistence and the resume banner
\* ------------------------------------------------------------------------
\* what localStorage.setItem throws when it cannot store
StorageError == [kind |-> "StorageError", needles |-> {}]

\* mutant: setItem outside the try block
saveProgressUnguarded(s, data) ==
    IF s.storageWorks THEN [s EXCEPT !.storage = << data >>]
    ELSE [s EXCEPT !.thrown = << StorageError >>]

\* setItem in a try block: a throw is logged and swallowed
saveProgress(s, data) ==
    IF s.storageWorks THEN [s EXCEPT !.storage = << data >>] ELSE s

\* getItem and JSON.parse in a try block: null when they throw
loadProgress(s) == IF s.storageWorks THEN s.storage ELSE << >>

\* removeItem in a try block
clearProgress(s) == IF s.storageWorks THEN [s EXCEPT !.storage = << >>] ELSE s

\* mutant: the file name is not compared
checkForSavedProgressAnyFile(s) ==
    LET saved == loadProgress(s)
    IN  IF /\ saved # << >>
           /\ Len(saved[1].translatedEntries) > 0
           /\ saved[1].completedBatches < saved[1].totalBatches
        THEN [s EXCEPT !.resumeBanner = TRUE]
        ELSE s

checkForSavedProgress(s) ==
    LET saved == loadProgress(s)
    IN  IF /\ saved # << >>
           /\ Len(saved[1].translatedEntries) > 0
           /\ saved[1].fileName = s.file
           /\ saved[1].completedBatches < saved[1].totalBatches
        THEN [s EXCEPT !.resumeBanner = TRUE]
        ELSE s

\* the save-progress callback startTranslation hands to translateAllBatches;
\* the checkpoint's originalEntries, header, fileFormat, targetLang and
\* savedAt are written but never read back and are left out
onBatchComplete(s, completedBatches, allEntries, failed) ==
    LET seen == [s EXCEPT !.emitted =
                    Append(@, [completedBatches |-> completedBatches,
                               translatedEntries |-> allEntries,
                               failed |-> failed,
                               totalBatches |-> Len(s.batches),
                               progressBefore |-> s.completedEntries])]
    IN  IF s.file = NoFile
        THEN [seen EXCEPT !.thrown = << NullDereference >>]
        ELSE LET saved ==
                     saveProgress(seen,
                         [fileName |-> s.file,
                          batchSize |-> s.batchSize,
                          totalBatches |-> getBatchStats(s.batches).totalBatches,
                          completedBatches |-> completedBatches,
                          totalEntries |-> getBatchStats(s.batches).totalEntries,
                          translatedEntries |-> allEntries,
                          failed |-> failed])
             IN  IF s.storageWorks /\ saved.thrown = << >>
                 THEN [saved EXCEPT !.storageBatches = s.batches,
                                    !.storageClean = s.runClean]
                 ELSE saved

\* the progress callback: completedEntries += batchEntries when positive
onProgress(s, batchEntries) ==
    IF batchEntries > 0
    THEN [s EXCEPT !.completedEntries = @ + batchEntries]
    ELSE s

\* ------------------------------------------------------------------------
\* translator.js: translateAllBatches and translateBatchWithRetry, cut at
\* their awaits.  A stretch ends with pc at the next await, or with
\* pc = "returned", or with thrown set.
\* ------------------------------------------------------------------------
\* mutant: the failed batch counted as completed
failedCheckpointIndexNext(batchIndex) == batchIndex + 1

\* first argument of onBatchComplete in the catch block
failedCheckpointIndex(batchIndex) == batchIndex

\* first argument of onBatchComplete after a success
completedCheckpointIndex(batchIndex) == batchIndex + 1

\* mutant: the loop steps over a batch
nextBatchIndexSkip(batchIndex) == batchIndex + 2

\* i++ of the batch loop
nextBatchIndex(batchIndex) == batchIndex + 1

\* mutant: the first three of the running result
translatedContextOfFirst(allEntries) == slice(allEntries, 0, contextTail)

\* the translated context of a batch: the last three of the running result
translatedContextOf(allEntries) ==
    slice(allEntries, Max(0, Len(allEntries) - contextTail), Len(allEntries))

\* mutant: the seconds cut off instead of rounded
waitSecondsOfFloor(totalDelay) == totalDelay \div 1000

\* Math.round(totalDelay / 1000)
waitSecondsOf(totalDelay) == (totalDelay + 500) \div 1000

\* mutant: no exponential growth
backoffDelayFlat(attemptNo) == baseDelay

backoffDelay(attemptNo) == baseDelay * Pow2(attemptNo)

\* values of Math.random() * 2000
Jitters == {0, 499, 500, jitterRange - 1}

\* mutant: a wait after the final attempt as well
hasRetryLeftAlways(attemptNo) == attemptNo <= maxRetries

\* attempt < maxRetries: another attempt follows this one
hasRetryLeft(attemptNo) == attemptNo < maxRetries

\* mutant: the failure is rethrown without a checkpoint
catchBlockNoCheckpoint(s, error) == [s EXCEPT !.thrown = << error >>]

\* the catch block of translateAllBatches
catchBlock(s, error) ==
    LET saved == onBatchComplete([s EXCEPT !.thrown = << >>],
                                 failedCheckpointIndex(s.i),
                                 s.allTranslatedEntries, TRUE)
    IN  IF saved.thrown # << >> THEN saved
        ELSE [saved EXCEPT !.thrown = << error >>]

\* translateBatchWithRetry left by a throw: error is what it throws
controllerThrows(s, error, why) ==
    catchBlock([s EXCEPT !.controller = << [status |-> "threw",
                                            attempts |-> s.callsMade,
                                            failures |-> s.failures,
                                            waits |-> s.waitCount,
                                            error |-> error] >>,
                         !.outcome = [@ EXCEPT !.cause = why, !.batch = s.i],
                         !.lastWaiting = << >>],
               error)

\* mutant: the retry loop has no last attempt
attemptTopUnbounded(s) ==
    IF s.abortController = "aborted"
    THEN controllerThrows(s, CancelledError, "cancelled-attempt")
    ELSE [s EXCEPT !.pc = "call", !.lastCallBatch = s.i, !.inFlight = @ + 1,
                   !.callsMade = @ + 1]

\* mutant: the attempt starts without looking at the signal
attemptTopNoAbortCheck(s) ==
    IF s.attempt <= maxRetries
    THEN [s EXCEPT !.pc = "call", !.lastCallBatch = s.i, !.inFlight = @ + 1,
                   !.callsMade = @ + 1]
    ELSE controllerThrows(s, s.lastError[1], "translate")

\* top of the retry loop, attempt already set
attemptTop(s) ==
    IF s.attempt <= maxRetries
    THEN IF s.abortController = "aborted"
         THEN controllerThrows(s, CancelledError, "cancelled-attempt")
         ELSE [s EXCEPT !.pc = "call", !.lastCallBatch = s.i, !.inFlight = @ + 1,
                        !.callsMade = @ + 1]
    ELSE controllerThrows(s, s.lastError[1], "translate")

\* mutant: the batch starts without looking at the signal
loopTopNoAbortCheck(s) ==
    IF ~(s.i < Len(s.batches)) THEN [s EXCEPT !.pc = "returned"]
    ELSE attemptTopNoAbortCheck(
             [onProgress(s, Len(s.batches[s.i + 1].entries))
              EXCEPT !.atStart = s.allTranslatedEntries,
                     !.attempt = 0, !.lastError = << >>,
                     !.waitCount = 0, !.lastWaiting = << >>,
                     !.callsMade = 0, !.failures = 0,
                     !.controller = << >>])

\* top of the batch loop, i already set
loopTop(s) ==
    IF ~(s.i < Len(s.batches)) THEN [s EXCEPT !.pc = "returned"]
    ELSE IF s.abortController = "aborted"
    THEN [s EXCEPT !.thrown = << CancelledError >>,
                   !.outcome = [@ EXCEPT !.cause = "cancelled-batch", !.batch = s.i]]
    ELSE attemptTop([onProgress(s, Len(s.batches[s.i + 1].entries))
                     EXCEPT !.atStart = s.allTranslatedEntries,
                            !.attempt = 0, !.lastError = << >>,
                            !.waitCount = 0, !.lastWaiting = << >>,
                            !.callsMade = 0, !.failures = 0,
                            !.controller = << >>])

\* mutant: a delay after the last batch as well
delayFollowsAlways(batchIndex, totalBatches) == TRUE

\* i < batches.length - 1: the inter-batch delay follows batch i
delayFollows(batchIndex, totalBatches) == batchIndex < totalBatches - 1

\* mutant: the progress notification precedes the checkpoint
afterSuccessProgressFirst(s) ==
    LET batch == s.batches[s.i + 1]
        translatedEntries ==
            translateBatch(batch, translatedContextOf(s.allTranslatedEntries))
        pushed == [s EXCEPT !.allTranslatedEntries = @ \o translatedEntries,
                            !.controller = << [status |-> "returned",
                                               attempts |-> s.callsMade,
                                               failures |-> s.failures,
                                               waits |-> s.waitCount,
                                               value |-> translatedEntries] >>,
                            !.lastWaiting = << >>]
        reported == onProgress(pushed, Len(batch.entries))
        saved == onBatchComplete(reported, completedCheckpointIndex(s.i),
                                 reported.allTranslatedEntries, FALSE)
    IN  IF saved.thrown # << >>
        THEN catchBlock([saved EXCEPT !.outcome = [@ EXCEPT !.cause = "callback",
                                                            !.batch = s.i]],
                        saved.thrown[1])
        ELSE IF delayFollows(s.i, Len(s.batches))
             THEN [saved EXCEPT !.pc = "batchDelay", !.timer = BATCH_DELAY]
             ELSE loopTop([saved EXCEPT !.i = nextBatchIndex(s.i)])

\* translateBatch resolved with the translated entries
afterSuccess(s) ==
    LET batch == s.batches[s.i + 1]
        translatedEntries ==
            translateBatch(batch, translatedContextOf(s.allTranslatedEntries))
        pushed == [s EXCEPT !.allTranslatedEntries = @ \o translatedEntries,
                            !.controller = << [status |-> "returned",
                                               attempts |-> s.callsMade,
                                               failures |-> s.failures,
                                               waits |-> s.waitCount,
                                               value |-> translatedEntries] >>,
                            !.lastWaiting = << >>]
        saved == onBatchComplete(pushed, completedCheckpointIndex(s.i),
                                 pushed.allTranslatedEntries, FALSE)
    IN  IF saved.thrown # << >>
        THEN catchBlock([saved EXCEPT !.outcome = [@ EXCEPT !.cause = "callback",
                                                            !.batch = s.i]],
                        saved.thrown[1])
        ELSE LET reported == onProgress(saved, Len(batch.entries))
             IN  IF delayFollows(s.i, Len(s.batches))
                 THEN [reported EXCEPT !.pc = "batchDelay", !.timer = BATCH_DELAY]
                 ELSE loopTop([reported EXCEPT !.i = nextBatchIndex(s.i)])

\* translateBatch rejected with error
afterFailure(s, error, jitter) ==
    LET failed == [s EXCEPT !.lastError = << error >>, !.failures = @ + 1]
    IN  IF ~isRetryable(error)
        THEN controllerThrows(failed, error, "translate")
        ELSE IF hasRetryLeft(s.attempt)
        THEN LET totalDelay == backoffDelay(s.attempt) + jitter
             IN  [failed EXCEPT !.pc = "backoff",
                                !.timer = totalDelay,
                                !.waitCount = @ + 1,
                                !.lastWaiting = << [waitSeconds |-> waitSecondsOf(totalDelay),
                                                    attempt |-> s.attempt + 1,
                                                    maxRetries |-> maxRetries] >>]
        ELSE attemptTop([failed EXCEPT !.attempt = @ + 1])

\* ------------------------------------------------------------------------
\* app.js: startTranslation
\* ------------------------------------------------------------------------
\* what follows the await of translateAllBatches, and the finally block
settle(s) ==
    IF s.thrown = << >> /\ s.pc # "returned" THEN s
    ELSE LET ended ==
                 IF s.thrown = << >> /\ s.file # NoFile
                 THEN [clearProgress(s) EXCEPT
                          !.outcome = [@ EXCEPT !.status = "returned"]]
                 ELSE [checkForSavedProgress(s) EXCEPT
                          !.outcome = [@ EXCEPT
                              !.status = "failed",
                              !.error = IF s.thrown = << >>
                                        THEN << NullDereference >> ELSE s.thrown]]
         IN  [ended EXCEPT !.isTranslating = FALSE, !.abortController = "null",
                           !.pc = "idle", !.timer = 0, !.attempt = 0,
                           !.waitCount = 0, !.callsMade = 0, !.failures = 0,
                           !.thrown = << >>]

\* resumeData is << >> for the Translate button (translateAllBatches then
\* takes its defaults: batch 0, no entries) and << checkpoint >> for Resume
startTranslation(s, resumeData) ==
    IF s.file = NoFile THEN s
    ELSE LET size == s.batchSizeInput
             made == createBatches(entriesOf(s.file), size)
             from == IF resumeData # << >> THEN resumeData[1].completedBatches ELSE 0
             existingEntries ==
                 IF resumeData # << >> THEN resumeData[1].translatedEntries ELSE << >>
         IN  settle(loopTop(
                 [s EXCEPT !.batchSize = size,
                           !.batches = made,
                           !.startFromBatch = from,
                           !.completedEntries = Len(existingEntries),
                           !.abortController = "clear",
                           !.isTranslating = TRUE,
                           !.allTranslatedEntries = existingEntries,
                           !.i = from,
                           !.emitted = << >>,
                           !.outcome = [NoOutcome EXCEPT !.status = "running"],
                           !.lastCallBatch = -1,
                           !.resumedFrom = resumeData,
                           !.cancelledAt = << >>,
                           !.runClean = IF resumeData = << >> THEN TRUE
                                        ELSE s.storageClean /\ s.storageBatches = made]))

\* ------------------------------------------------------------------------
\* Actions of the app
\* ------------------------------------------------------------------------
\* a file dropped or chosen; the dropzone is hidden while a file is loaded
\* and takes no pointer events while translating
handleFile(f) ==
    /\ file = NoFile
    /\ ~isTranslating
    /\ Commit(checkForSavedProgress([Cur EXCEPT !.file = f]))
    /\ UNCHANGED << second, pureVars >>

removeFile ==
    /\ file # NoFile
    /\ Commit([Cur EXCEPT !.file = NoFile, !.resumeBanner = FALSE])
    /\ UNCHANGED << second, pureVars >>

\* the batch size control, disabled while translating
selectBatchSize(b) ==
    /\ ~isTranslating
    /\ b # batchSizeInput
    /\ Commit([Cur EXCEPT !.batchSizeInput = b])
    /\ UNCHANGED << second, pureVars >>

\* the Translate button, disabled without a file and while translating
clickTranslate ==
    /\ file # NoFile
    /\ ~isTranslating
    /\ Commit(startTranslation(Cur, << >>))
    /\ UNCHANGED << second, pureVars >>

\* the Resume button of the banner.  This specification follows one run at
\* a time: a click while a run is in progress is left to the specification
\* of overlapping runs.
clickResume ==
    /\ resumeBanner
    /\ ~isTranslating
    /\ loadProgress(Cur) # << >>
    /\ Commit(startTranslation([Cur EXCEPT !.resumeBanner = FALSE],
                                loadProgress(Cur)))
    /\ UNCHANGED << second, pureVars >>

clickDiscard ==
    /\ resumeBanner
    /\ Commit([clearProgress(Cur) EXCEPT !.resumeBanner = FALSE])
    /\ UNCHANGED << second, pureVars >>

pressEscape ==
    /\ isTranslating
    /\ abortController = "clear"
    /\ Commit([Cur EXCEPT !.abortController = "aborted",
                          !.cancelledAt = << [pc |-> pc, batch |-> i] >>])
    /\ UNCHANGED << second, pureVars >>

\* ------------------------------------------------------------------------
\* Actions of the run: the events that end its awaits
\* ------------------------------------------------------------------------
callSucceeds ==
    /\ pc = "call"
    /\ Commit(settle(afterSuccess([Cur EXCEPT !.inFlight = @ - 1])))
    /\ UNCHANGED << second, pureVars >>

callFails ==
    /\ pc = "call"
    /\ \E error \in CallErrors :
          \E jitter \in IF isRetryable(error) /\ hasRetryLeft(attempt)
                        THEN Jitters ELSE {0} :
             Commit(settle(afterFailure([Cur EXCEPT !.inFlight = @ - 1], error, jitter)))
    /\ UNCHANGED << second, pureVars >>

backoffElapses ==
    /\ pc = "backoff"
    /\ Commit(settle(attemptTop([Cur EXCEPT !.timer = 0, !.attempt = @ + 1])))
    /\ UNCHANGED << second, pureVars >>

batchDelayElapses ==
    /\ pc = "batchDelay"
    /\ Commit(settle(loopTop([Cur EXCEPT !.timer = 0, !.i = nextBatchIndex(i)])))
    /\ UNCHANGED << second, pureVars >>

Init ==
    /\ file = NoFile
    /\ batchSizeInput \in BatchSizes
    /\ storage = << >>
    /\ storageWorks = TRUE
    /\ resumeBanner = FALSE
    /\ isTranslating = FALSE
    /\ abortController = "null"
    /\ pc = "idle"
    /\ batches = << >>
    /\ batchSize = 0
    /\ startFromBatch = 0
    /\ i = 0
    /\ attempt = 0
    /\ allTranslatedEntries = << >>
    /\ lastError = << >>
    /\ completedEntries = 0
    /\ timer = 0
    /\ emitted = << >>
    /\ outcome = NoOutcome
    /\ atStart = << >>
    /\ lastWaiting = << >>
    /\ waitCount = 0
    /\ callsMade = 0
    /\ failures = 0
    /\ resumedFrom = << >>
    /\ controller = << >>
    /\ lastCallBatch = -1
    /\ inFlight = 0
    /\ storageBatches = << >>
    /\ storageClean = TRUE
    /\ runClean = TRUE
    /\ cancelledAt = << >>
    /\ second = << >>
    /\ callsOfRun = 0
    /\ response = << >>
    /\ originalEntries = << >>
    /\ parsed = << >>
    /\ segmentEntries = << >>
    /\ segmentSize = 0
    /\ segments = << >>

Next ==
    \/ \E f \in FileNames : handleFile(f)
    \/ removeFile
    \/ \E b \in BatchSizes : selectBatchSize(b)
    \/ clickTranslate
    \/ clickResume
    \/ clickDiscard
    \/ pressEscape
    \/ callSucceeds
    \/ callFails
    \/ backoffElapses
    \/ batchDelayElapses

Spec == Init /\ [][Next]_vars

\* ------------------------------------------------------------------------
\* The same app with a localStorage that stops and starts working (quota
\* exceeded, storage disabled).  Calls are rejected with one retryable and
\* one terminal error, and the backoff has no jitter.
\* ------------------------------------------------------------------------
StorageRunErrors == {RateLimitError, ServerError}

callFailsUnjittered ==
    /\ pc = "call"
    /\ \E error \in StorageRunErrors :
          Commit(settle(afterFailure([Cur EXCEPT !.inFlight = @ - 1], error, 0)))
    /\ UNCHANGED << second, pureVars >>

storageFlips ==
    /\ Commit([Cur EXCEPT !.storageWorks = ~@])
    /\ UNCHANGED << second, pureVars >>

NextStorage ==
    \/ \E f \in FileNames : handleFile(f)
    \/ removeFile
    \/ \E b \in BatchSizes : selectBatchSize(b)
    \/ clickTranslate
    \/ clickResume
    \/ clickDiscard
    \/ pressEscape
    \/ callSucceeds
    \/ callFailsUnjittered
    \/ backoffElapses
    \/ batchDelayElapses
    \/ storageFlips

SpecStorage == Init /\ [][NextStorage]_vars

\* ------------------------------------------------------------------------
\* Overlapping runs.  Nothing in startTranslation or in the Resume handler
\* looks at state.isTranslating, and the banner stays up when a run is
\* started with the Translate button.  A run started while the run
\* variables are taken keeps its locals in `second`; the app state and
\* localStorage are the same for both.  This specification follows at most
\* two runs at a time, rejects calls with the server error only, and leaves
\* Escape and the batch size control out: state.abortController holds the
\* controller of the run started last, which the one abortController
\* variable does not tell apart.
\* ------------------------------------------------------------------------
\* the locals of a run that has not started
IdleRun ==
    [pc |-> "idle", batches |-> << >>, batchSize |-> 0, startFromBatch |-> 0,
     i |-> 0, attempt |-> 0, allTranslatedEntries |-> << >>,
     lastError |-> << >>, completedEntries |-> 0, timer |-> 0,
     emitted |-> << >>, outcome |-> NoOutcome, atStart |-> << >>,
     lastWaiting |-> << >>, waitCount |-> 0, callsMade |-> 0, failures |-> 0,
     resumedFrom |-> << >>, controller |-> << >>, lastCallBatch |-> -1,
     runClean |-> TRUE, cancelledAt |-> << >>]

\* the locals of the run of s
runOf(s) ==
    [pc |-> s.pc, batches |-> s.batches, batchSize |-> s.batchSize,
     startFromBatch |-> s.startFromBatch, i |-> s.i, attempt |-> s.attempt,
     allTranslatedEntries |-> s.allTranslatedEntries,
     lastError |-> s.lastError, completedEntries |-> s.completedEntries,
     timer |-> s.timer, emitted |-> s.emitted, outcome |-> s.outcome,
     atStart |-> s.atStart, lastWaiting |-> s.lastWaiting,
     waitCount |-> s.waitCount, callsMade |-> s.callsMade,
     failures |-> s.failures, resumedFrom |-> s.resumedFrom,
     controller |-> s.controller, lastCallBatch |-> s.lastCallBatch,
     runClean |-> s.runClean, cancelledAt |-> s.cancelledAt]

\* s as the run with locals r sees it
withRun(s, r) ==
    [s EXCEPT !.pc = r.pc, !.batches = r.batches, !.batchSize = r.batchSize,
              !.startFromBatch = r.startFromBatch, !.i = r.i,
              !.attempt = r.attempt,
              !.allTranslatedEntries = r.allTranslatedEntries,
              !.lastError = r.lastError,
              !.completedEntries = r.completedEntries, !.timer = r.timer,
              !.emitted = r.emitted, !.outcome = r.outcome,
              !.atStart = r.atStart, !.lastWaiting = r.lastWaiting,
              !.waitCount = r.waitCount, !.callsMade = r.callsMade,
              !.failures = r.failures, !.resumedFrom = r.resumedFrom,
              !.controller = r.controller,
              !.lastCallBatch = r.lastCallBatch, !.runClean = r.runClean,
              !.cancelledAt = r.cancelledAt]

\* the state as the second run sees it
CurSecond == withRun(Cur, second[1])

\* the second run has moved to s: the app state is s's, the run variables
\* stay with the first run
CommitSecond(s) ==
    /\ Commit(withRun(s, runOf(Cur)))
    /\ second' = IF s.pc = "idle" THEN << >> ELSE << runOf(s) >>

\* startTranslation called from s: the run takes the run variables when no
\* run holds them, and `second` otherwise
startRun(s, resumeData) ==
    IF pc = "idle"
    THEN Commit(startTranslation(s, resumeData)) /\ UNCHANGED second
    ELSE /\ second = << >>
         /\ CommitSecond(startTranslation(withRun(s, IdleRun), resumeData))

activeRuns == (IF pc = "idle" THEN 0 ELSE 1) + Len(second)

\* the Translate button: enabled again once either run has ended
clickTranslateAnytime ==
    /\ file # NoFile
    /\ ~isTranslating
    /\ startRun(Cur, << >>)
    /\ UNCHANGED pureVars

\* the Resume button of the banner, whatever state.isTranslating is
clickResumeAnytime ==
    /\ resumeBanner
    /\ loadProgress(Cur) # << >>
    /\ startRun([Cur EXCEPT !.resumeBanner = FALSE], loadProgress(Cur))
    /\ UNCHANGED pureVars

OverlapErrors == {ServerError}

firstCallFails ==
    /\ pc = "call"
    /\ \E error \in OverlapErrors :
          Commit(settle(afterFailure([Cur EXCEPT !.inFlight = @ - 1], error, 0)))
    /\ UNCHANGED << second, pureVars >>

secondCallSucceeds ==
    /\ second # << >>
    /\ second[1].pc = "call"
    /\ CommitSecond(settle(afterSuccess([CurSecond EXCEPT !.inFlight = @ - 1])))
    /\ UNCHANGED pureVars

secondCallFails ==
    /\ second # << >>
    /\ second[1].pc = "call"
    /\ \E error \in OverlapErrors :
          CommitSecond(settle(afterFailure([CurSecond EXCEPT !.inFlight = @ - 1],
                                           error, 0)))
    /\ UNCHANGED pureVars

secondBatchDelayElapses ==
    /\ second # << >>
    /\ second[1].pc = "batchDelay"
    /\ CommitSecond(settle(loopTop([CurSecond EXCEPT !.timer = 0,
                                                     !.i = nextBatchIndex(@)])))
    /\ UNCHANGED pureVars

NextOverlap ==
    \/ \E f \in FileNames : handleFile(f)
    \/ removeFile
    \/ clickTranslateAnytime
    \/ clickResumeAnytime
    \/ clickDiscard
    \/ callSucceeds
    \/ firstCallFails
    \/ batchDelayElapses
    \/ secondCallSucceeds
    \/ secondCallFails
    \/ secondBatchDelayElapses

SpecOverlap == Init /\ [][NextOverlap]_vars

\* ------------------------------------------------------------------------
\* Resuming with far fewer batches than the checkpoint counts: one run at a
\* time, the batch size control offering a size that puts all entries in
\* one batch, calls rejected with the server error only, no Escape.
\* ------------------------------------------------------------------------
ResumeSizes == {10, 50}

NextResume ==
    \/ \E f \in FileNames : handleFile(f)
    \/ removeFile
    \/ \E b \in ResumeSizes : selectBatchSize(b)
    \/ clickTranslate
    \/ clickResume
    \/ clickDiscard
    \/ callSucceeds
    \/ firstCallFails
    \/ batchDelayElapses

SpecResume == Init /\ [][NextResume]_vars

\* ------------------------------------------------------------------------
\* Two subtitle files loaded in turn: one run at a time, calls rejected
\* with the server error only, the batch size left as it is.
\* ------------------------------------------------------------------------
TwoFileNames == {"a.srt", "b.srt"}

NextFiles ==
    \/ \E f \in TwoFileNames : handleFile(f)
    \/ removeFile
    \/ clickTranslate
    \/ clickResume
    \/ clickDiscard
    \/ pressEscape
    \/ callSucceeds
    \/ firstCallFails
    \/ batchDelayElapses

SpecFiles == Init /\ [][NextFiles]_vars

\* ------------------------------------------------------------------------
\* The app with the translate calls of a run counted, and with the events
\* a run waits for bound to happen: every call is answered and every timer
\* fires.  Calls are rejected with one retryable and one terminal error and
\* the backoff has no jitter.
\* ------------------------------------------------------------------------
\* the run has moved to s: a stretch that ends at the await of a call has
\* issued this call
CommitCounted(s, before) ==
    /\ Commit(s)
    /\ callsOfRun' = before + (IF s.pc = "call" THEN 1 ELSE 0)
    /\ UNCHANGED << second, parseVars, segmentVars >>

countedTranslate ==
    /\ file # NoFile
    /\ ~isTranslating
    /\ CommitCounted(startTranslation(Cur, << >>), 0)

countedResume ==
    /\ resumeBanner
    /\ ~isTranslating
    /\ loadProgress(Cur) # << >>
    /\ CommitCounted(startTranslation([Cur EXCEPT !.resumeBanner = FALSE],
                                       loadProgress(Cur)), 0)

countedCallSucceeds ==
    /\ pc = "call"
    /\ CommitCounted(settle(afterSuccess([Cur EXCEPT !.inFlight = @ - 1])),
                     callsOfRun)

countedCallFails ==
    /\ pc = "call"
    /\ \E error \in StorageRunErrors :
          CommitCounted(settle(afterFailure([Cur EXCEPT !.inFlight = @ - 1],
                                            error, 0)),
                        callsOfRun)

countedBackoffElapses ==
    /\ pc = "backoff"
    /\ CommitCounted(settle(attemptTop([Cur EXCEPT !.timer = 0, !.attempt = @ + 1])),
                     callsOfRun)

countedBatchDelayElapses ==
    /\ pc = "batchDelay"
    /\ CommitCounted(settle(loopTop([Cur EXCEPT !.timer = 0,
                                                !.i = nextBatchIndex(i)])),
                     callsOfRun)

NextLive ==
    \/ \E f \in FileNames : handleFile(f)
    \/ removeFile
    \/ \E b \in BatchSizes : selectBatchSize(b)
    \/ countedTranslate
    \/ countedResume
    \/ clickDiscard
    \/ pressEscape
    \/ countedCallSucceeds
    \/ countedCallFails
    \/ countedBackoffElapses
    \/ countedBatchDelayElapses

\* Weak fairness of the answer to a call, of the backoff timer and of the
\* inter-batch timer.  Each of these events is enabled exactly while pc
\* stands at its await and leaves that await when it happens, so weak
\* fairness of the event is that pc does not stay at the await for ever.
SpecLive ==
    /\ Init
    /\ [][NextLive]_vars
    /\ []<>(pc # "call")
    /\ []<>(pc # "backoff")
    /\ []<>(pc # "batchDelay")

\* ------------------------------------------------------------------------
\* parseAPIResponse on its own: every response built from at most MaxTokens
\* tokens, reconciled with every batch of at most MaxOriginals entries
\* ------------------------------------------------------------------------
Separator == << "nl", "dash", "dash", "dash", "nl" >>
LongSeparator == << "nl", "dash", "dash", "dash", "dash", "nl" >>
Tokens == {Separator, LongSeparator, << "nl" >>, << "dash" >>,
           << "lb", "dg", "rb" >>, << "lb" >>, << "x" >>}

RECURSIVE Flatten(_)
Flatten(tokens) ==
    IF tokens = << >> THEN << >> ELSE Head(tokens) \o Flatten(Tail(tokens))

Responses ==
    {Flatten(tokens) : tokens \in UNION {[1..n -> Tokens] : n \in 0..MaxTokens}}

\* the entries of a batch: entry k has k letters of original text
originalsOf(n) ==
    [k \in 1..n |-> [index |-> k, startTime |-> 10 * k, endTime |-> 10 * k + 9,
                     text |-> [c \in 1..k |-> "o"]]]

InitParse ==
    /\ file = NoFile
    /\ batchSizeInput \in BatchSizes
    /\ storage = << >>
    /\ storageWorks = TRUE
    /\ resumeBanner = FALSE
    /\ isTranslating = FALSE
    /\ abortController = "null"
    /\ pc = "idle"
    /\ batches = << >>
    /\ batchSize = 0
    /\ startFromBatch = 0
    /\ i = 0
    /\ attempt = 0
    /\ allTranslatedEntries = << >>
    /\ lastError = << >>
    /\ completedEntries = 0
    /\ timer = 0
    /\ emitted = << >>
    /\ outcome = NoOutcome
    /\ atStart = << >>
    /\ lastWaiting = << >>
    /\ waitCount = 0
    /\ callsMade = 0
    /\ failures = 0
    /\ resumedFrom = << >>
    /\ controller = << >>
    /\ lastCallBatch = -1
    /\ inFlight = 0
    /\ storageBatches = << >>
    /\ storageClean = TRUE
    /\ runClean = TRUE
    /\ cancelledAt = << >>
    /\ second = << >>
    /\ callsOfRun = 0
    /\ response \in Responses
    /\ originalEntries \in {originalsOf(n) : n \in 0..MaxOriginals}
    /\ parsed = << >>
    /\ segmentEntries = << >>
    /\ segmentSize = 0
    /\ segments = << >>

reconcile ==
    /\ parsed = << >>
    /\ parsed' = << parseAPIResponse(response, originalEntries) >>
    /\ UNCHANGED << appVars, runVars, obsVars, second, response, originalEntries,
                    segmentVars, callsOfRun >>

NextParse == reconcile

SpecParse == InitParse /\ [][NextParse]_vars

\* ------------------------------------------------------------------------
\* createBatches on its own: every entry sequence of at most MaxSegmentLen
\* entries, cut at every size of SegmentSizes
\* ------------------------------------------------------------------------
\* the app before anything was loaded or started
Quiescent ==
    /\ file = NoFile
    /\ batchSizeInput = MinBatchSize
    /\ storage = << >>
    /\ storageWorks = TRUE
    /\ resumeBanner = FALSE
    /\ isTranslating = FALSE
    /\ abortController = "null"
    /\ pc = "idle"
    /\ batches = << >>
    /\ batchSize = 0
    /\ startFromBatch = 0
    /\ i = 0
    /\ attempt = 0
    /\ allTranslatedEntries = << >>
    /\ lastError = << >>
    /\ completedEntries = 0
    /\ timer = 0
    /\ emitted = << >>
    /\ outcome = NoOutcome
    /\ atStart = << >>
    /\ lastWaiting = << >>
    /\ waitCount = 0
    /\ callsMade = 0
    /\ failures = 0
    /\ resumedFrom = << >>
    /\ controller = << >>
    /\ lastCallBatch = -1
    /\ inFlight = 0
    /\ storageBatches = << >>
    /\ storageClean = TRUE
    /\ runClean = TRUE
    /\ cancelledAt = << >>
    /\ second = << >>
    /\ callsOfRun = 0

\* requested batch sizes: below, at, between and above the limits
SegmentSizes == {-1, 0, 1, 9, 10, 11, 25, 50, 99, 100, 101, 150}

\* n subtitle entries, numbered from 1 as in a subtitle file
segmentInput(n) ==
    [k \in 1..n |-> [index |-> k, startTime |-> 10 * k, endTime |-> 10 * k + 9,
                     text |-> << "x" >>]]

InitSegment ==
    /\ Quiescent
    /\ response = << >>
    /\ originalEntries = << >>
    /\ parsed = << >>
    /\ segmentEntries \in {segmentInput(n) : n \in 0..MaxSegmentLen}
    /\ segmentSize \in SegmentSizes
    /\ segments = << >>

segment ==
    /\ segments = << >>
    /\ segments' = << createBatches(segmentEntries, segmentSize) >>
    /\ UNCHANGED << appVars, runVars, obsVars, second, parseVars,
                    segmentEntries, segmentSize, callsOfRun >>

NextSegment == segment

SpecSegment == InitSegment /\ [][NextSegment]_vars

\* ------------------------------------------------------------------------
\* formatEntriesForAPI and parseAPIResponse back to back: the response is
\* the request rendering of the originals
\* ------------------------------------------------------------------------
\* the text is what String.prototype.trim would leave of it
isTrimmed(text) == trim(text) = text

\* the text has a line of three or more dashes and nothing else
hasSeparatorLine(text) ==
    \E p \in 1..Len(text) : \E q \in p..Len(text) :
        /\ q - p + 1 >= 3
        /\ \A k \in p..q : text[k] = "dash"
        /\ (p = 1 \/ text[p - 1] = "nl")
        /\ (q = Len(text) \/ text[q + 1] = "nl")

TextPieces == {<< >>, << "x" >>, << "sp" >>, << "dash" >>,
               << "x", "nl" >>, << "nl", "x" >>,
               << "dash", "dash", "dash" >>, << "lb", "dg", "rb" >>}

\* entry texts: two pieces each, trimmed and free of separator lines
RoundTripTexts ==
    {t \in {a \o b : a \in TextPieces, b \in TextPieces} :
        isTrimmed(t) /\ ~hasSeparatorLine(t)}

entriesWithTexts(texts) ==
    [k \in 1..Len(texts) |->
        [index |-> k, startTime |-> 10 * k, endTime |-> 10 * k + 9,
         text |-> texts[k]]]

InitRoundTrip ==
    /\ Quiescent
    /\ originalEntries \in
           {entriesWithTexts(texts) :
               texts \in UNION {[1..n -> RoundTripTexts] : n \in 0..MaxOriginals}}
    /\ response = formatEntriesForAPI(originalEntries)
    /\ parsed = << >>
    /\ segmentEntries = << >>
    /\ segmentSize = 0
    /\ segments = << >>

NextRoundTrip == reconcile

SpecRoundTrip == InitRoundTrip /\ [][NextRoundTrip]_vars

\* ------------------------------------------------------------------------
\* The first batch of a fresh run with the provider's reply parsed by
\* parseAPIResponse: the reply has one block per entry of the batch, in the
\* format the prompt asks for, and at most one of the blocks is empty.
\* ------------------------------------------------------------------------
ContextSizes == {10, 11}

RECURSIVE replyBlocksFrom(_, _, _)
\* the reply's blocks k..n joined by the separator; block blank is empty
replyBlocksFrom(k, n, blank) ==
    LET block == IF k = blank THEN << >> ELSE << "lb", "dg", "rb", "nl", "x" >>
    IN  IF k > n THEN << >>
        ELSE IF k = n THEN block
        ELSE block \o Separator \o replyBlocksFrom(k + 1, n, blank)

\* blank = 0: no block is empty
replyFor(entries, blank) == replyBlocksFrom(1, Len(entries), blank)

InitContext ==
    /\ Quiescent
    /\ segmentSize \in ContextSizes
    /\ segmentEntries \in {segmentInput(n) : n \in (segmentSize + 1)..MaxSegmentLen}
    /\ segments = << >>
    /\ originalEntries = createBatches(segmentEntries, segmentSize)[1].entries
    /\ response \in {replyFor(originalEntries, blank) : blank \in 0..Len(originalEntries)}
    /\ parsed = << >>

NextContext ==
    \/ segment
    \/ reconcile

SpecContext == InitContext /\ [][NextContext]_vars

\* ------------------------------------------------------------------------
\* Claims
\* ------------------------------------------------------------------------
Failed == outcome.status = "failed"
Returned == outcome.status = "returned"

\* C1: when the translate call of batch i fails terminally or runs out of
\* retries, the last onBatchComplete invocation before the failure reaches
\* startTranslation is (i, the running result as batch i found it, failed),
\* and the error startTranslation catches is the error of the translate call.
C1_FailureCheckpointThenSameError ==
    (Failed /\ outcome.cause = "translate") =>
        /\ emitted # << >>
        /\ Last(emitted).completedBatches = outcome.batch
        /\ Last(emitted).translatedEntries = atStart
        /\ Last(emitted).failed
        /\ outcome.error = lastError

\* C2: a run that fails with Cancelled, wherever the cancellation was seen,
\* has invoked onBatchComplete(i, running result, failed = true) last.
C2_CancelledAfterFailedCheckpoint ==
    (Failed /\ outcome.error = << CancelledError >>) =>
        /\ emitted # << >>
        /\ Last(emitted).failed
        /\ Last(emitted).completedBatches = outcome.batch

\* C3: in every checkpoint of a run, the number of translated entries is the
\* number of entries of the run's batches before completedBatches.
C3_CheckpointLength ==
    \A k \in 1..Len(emitted) :
        Len(emitted[k].translatedEntries)
            = SumEntries(batches, emitted[k].completedBatches)

RECURSIVE uninterruptedFrom(_, _, _)
\* the result of a run over bs that nothing interrupts, from batch k on
uninterruptedFrom(bs, k, acc) ==
    IF k > Len(bs) THEN acc
    ELSE uninterruptedFrom(bs, k + 1,
                           acc \o translateBatch(bs[k], translatedContextOf(acc)))

\* C4: a run resumed from the checkpoint of a failed run over the same
\* batches returns what the uninterrupted run over these batches returns.
C4_ResumeEqualsUninterrupted ==
    (Returned /\ resumedFrom # << >> /\ runClean) =>
        allTranslatedEntries = uninterruptedFrom(batches, 1, << >>)

C4_Witness ==
    /\ Returned
    /\ resumedFrom # << >>
    /\ resumedFrom[1].failed
    /\ resumedFrom[1].completedBatches = 1
    /\ Len(batches) = 3
    /\ runClean

\* C5: a run resumed from the persisted checkpoint, whatever batch size is
\* selected at resume time, returns every original entry once, in order.
C5_ResumeCoversEveryEntryOnce ==
    (Returned /\ resumedFrom # << >>) =>
        /\ Len(allTranslatedEntries) = NumEntries
        /\ \A k \in 1..Len(allTranslatedEntries) : allTranslatedEntries[k].index = k

\* C6: after a failed run the last checkpoint the orchestrator emitted
\* exists and has completedBatches < totalBatches.
C6_FailedRunLeavesResumableCheckpoint ==
    Failed =>
        /\ emitted # << >>
        /\ Last(emitted).completedBatches < Len(batches)

C6_Witness ==
    /\ Failed
    /\ outcome.cause = "translate"
    /\ outcome.batch = Len(batches) - 1
    /\ Len(batches) = 3
    /\ Last(emitted).failed

callStarts == pc' = "call" /\ pc # "call"

\* C7: within a run the translate calls go to batch startFromBatch, then
\* to the same batch again (a retry) or to the next one, and to the next one
\* only after the batch's result was appended and its success checkpoint
\* emitted; at most one call is in flight.
C7_SequentialCalls ==
    /\ [][callStarts =>
            IF pc = "idle"
            THEN lastCallBatch' = startFromBatch'
            ELSE \/ lastCallBatch' = lastCallBatch
                 \/ /\ lastCallBatch' = lastCallBatch + 1
                    /\ controller # << >>
                    /\ controller[1].status = "returned"
                    /\ allTranslatedEntries = atStart \o controller[1].value
                    /\ emitted # << >>
                    /\ Last(emitted).completedBatches = lastCallBatch + 1
                    /\ Last(emitted).translatedEntries = allTranslatedEntries
                    /\ ~Last(emitted).failed]_vars
    /\ [](inFlight <= 1)

C7_Witness ==
    /\ pc = "call"
    /\ startFromBatch = 1
    /\ lastCallBatch = 2
    /\ attempt = 1

\* C8: parseAPIResponse returns as many entries as it was given originals.
C8_SameLength ==
    parsed # << >> => Len(parsed[1]) = Len(originalEntries)

\* more blocks than originals, an empty block among them
C8_Witness ==
    /\ parsed # << >>
    /\ Len(originalEntries) = 2
    /\ Len(split(response)) = 3
    /\ \E k \in 1..3 : trim(split(response)[k]) = << >>
    /\ \E k \in 1..3 : trim(split(response)[k]) # << >>

\* C9: the entry at position k of parseAPIResponse's result has the index,
\* startTime and endTime of the original at position k.
C9_AlignedWithOriginals ==
    parsed # << >> =>
        \A k \in 1..Len(parsed[1]) :
            k <= Len(originalEntries) =>
                /\ parsed[1][k].index = originalEntries[k].index
                /\ parsed[1][k].startTime = originalEntries[k].startTime
                /\ parsed[1][k].endTime = originalEntries[k].endTime

\* C10: a controller call that returns after k rejected calls has made k + 1
\* calls and k onWaiting invocations; the j-th onWaiting invocation carries
\* attempt number j and a delay estimate above the one before it.
C10_RetryThenSuccess ==
    /\ [](controller # << >> /\ controller[1].status = "returned" =>
            /\ controller[1].failures <= maxRetries
            /\ controller[1].attempts = controller[1].failures + 1
            /\ controller[1].waits = controller[1].failures)
    /\ [][waitCount' = waitCount + 1 =>
            /\ lastWaiting' # << >>
            /\ lastWaiting'[1].attempt = waitCount'
            /\ lastWaiting'[1].maxRetries = maxRetries
            /\ (waitCount >= 1 =>
                   /\ lastWaiting # << >>
                   /\ lastWaiting'[1].waitSeconds > lastWaiting[1].waitSeconds)]_vars

C10_Witness ==
    /\ controller # << >>
    /\ controller[1].status = "returned"
    /\ controller[1].failures = maxRetries

\* a translate call was rejected in this step
callRejected == pc = "call" /\ inFlight' = inFlight - 1 /\ lastError' # lastError

controllerThrew == controller # << >> /\ controller[1].status = "threw"

\* C11: a translate call rejected with the invalid-API-key error or the
\* server error ends the controller at once: no further call, no onWaiting
\* invocation, no wait, and the controller throws that very error.
C11_AuthAndServerErrorsNotRetried ==
    /\ [][(callRejected /\ lastError' \in {<< InvalidKeyError >>, << ServerError >>}) =>
            /\ pc' = "idle"
            /\ timer' = 0
            /\ controller' # << >>
            /\ controller'[1].status = "threw"
            /\ controller'[1].error = lastError'[1]
            /\ controller'[1].attempts = callsMade
            /\ controller'[1].waits = waitCount]_vars
    /\ [](controllerThrew /\ controller[1].error \in {InvalidKeyError, ServerError} =>
            /\ controller[1].attempts = controller[1].failures
            /\ controller[1].waits = controller[1].failures - 1)

\* the first call of a batch rejected with the server error
C11_Witness ==
    /\ controllerThrew
    /\ controller[1].error = ServerError
    /\ controller[1].attempts = 1
    /\ controller[1].waits = 0

TerminalKinds == {"InvalidRequest", "ContentBlocked", "ApiError"}

\* C12: after a call was rejected with an invalid-request, content-blocked
\* or other API error, whatever the provider wrote in the message, the
\* controller neither waits for a retry nor calls again, and onWaiting was
\* not invoked for it.
C12_TerminalWhateverTheText ==
    (lastError # << >> /\ lastError[1].kind \in TerminalKinds) =>
        /\ pc \notin {"backoff", "call"}
        /\ lastWaiting = << >>

\* C13: a controller call that throws a retryable error has made
\* maxRetries + 1 calls, all of them rejected, has invoked onWaiting
\* maxRetries times, and throws the error of the last call.
C13_RetriesExhausted ==
    (controllerThrew /\ isRetryable(controller[1].error)) =>
        /\ controller[1].attempts = maxRetries + 1
        /\ controller[1].failures = maxRetries + 1
        /\ controller[1].waits = maxRetries
        /\ lastError = << controller[1].error >>

C13_Witness ==
    /\ controllerThrew
    /\ controller[1].error = EmptyResponseError
    /\ controller[1].failures = maxRetries + 1
    /\ Failed

\* C14: the error a failed run leaves with startTranslation is never the
\* rate-limit error nor the empty-response error.
C14_NoRateLimitSurfaces ==
    (Failed /\ outcome.error # << >>) =>
        outcome.error[1].kind \notin {"RateLimit", "EmptyResponse"}

\* C15: when the signal is aborted as an attempt is about to start, the
\* controller throws Cancelled without calling translateBatch for that
\* attempt; Cancelled is not retryable, so no onWaiting invocation and no
\* attempt follows it.
C15_CancelledBeforeAttempt ==
    /\ [][(pc = "backoff" /\ pc' # "backoff" /\ abortController = "aborted") =>
            /\ pc' = "idle"
            /\ inFlight' = 0
            /\ lastCallBatch' = lastCallBatch
            /\ controller' # << >>
            /\ controller'[1].status = "threw"
            /\ controller'[1].error = CancelledError
            /\ controller'[1].attempts = callsMade
            /\ controller'[1].waits = waitCount]_vars
    /\ [](controllerThrew /\ controller[1].error = CancelledError =>
            /\ controller[1].attempts = controller[1].failures
            /\ controller[1].waits = controller[1].failures)
    /\ [](~isRetryable(CancelledError))

C15_Witness ==
    /\ controllerThrew
    /\ controller[1].error = CancelledError
    /\ controller[1].attempts = 2
    /\ Failed
    /\ outcome.error = << CancelledError >>

\* Escape aborted the run while it stood at where
cancelledDuring(where) == cancelledAt # << >> /\ cancelledAt[1].pc = where

\* C16: once the signal is aborted during a backoff wait, the controller
\* is no longer suspended in that wait.
C16_BackoffAbortedOnCancel ==
    ~(cancelledDuring("backoff") /\ pc = "backoff")

\* C17: when the signal is aborted during the delay after batch i, the run
\* leaves the delay only by failing with Cancelled, and no translate call
\* for batch i + 1 is made.
C17_NoCallAfterCancelledDelay ==
    cancelledDuring("batchDelay") =>
        /\ lastCallBatch = cancelledAt[1].batch
        /\ inFlight = 0
        /\ pc \in {"batchDelay", "idle"}
        /\ (pc = "idle" =>
               /\ Failed
               /\ outcome.error = << CancelledError >>
               /\ outcome.batch = cancelledAt[1].batch + 1)

C17_Witness ==
    /\ cancelledDuring("batchDelay")
    /\ cancelledAt[1].batch = 1
    /\ pc = "idle"
    /\ Failed
    /\ Len(batches) = 3

\* C18: once the signal is aborted during the delay between two batches,
\* the run is no longer suspended in that delay.
C18_BatchDelayAbortedOnCancel ==
    ~(cancelledDuring("batchDelay") /\ pc = "batchDelay")

\* C19: when the signal is aborted while the translate call of batch i is
\* in flight, the running result stays as batch i found it, no checkpoint
\* counts batch i as completed, and the run does not return.
C19_ResultDiscardedAfterCancel ==
    cancelledDuring("call") =>
        /\ allTranslatedEntries = atStart
        /\ \A k \in 1..Len(emitted) :
               emitted[k].completedBatches <= cancelledAt[1].batch
        /\ ~Returned

\* C20: no sequence of clicks and file operations has two runs of
\* startTranslation in progress at once, so that the checkpoint in
\* localStorage has one writer.
C20_SingleActiveRun == activeRuns <= 1

\* the translate call of the current batch resolved in this step
callResolved ==
    pc = "call" /\ controller' # << >> /\ controller'[1].status = "returned"

\* C21: when the translate call of batch i resolves, its entries and
\* nothing else are appended to the running result, and onBatchComplete is
\* invoked next with (i + 1, the running result, not failed): before the
\* progress count moves and before anything of the next batch.
C21_AppendThenCheckpoint ==
    [][callResolved =>
        /\ controller'[1].value =
               translateBatch(batches[i + 1], translatedContextOf(allTranslatedEntries))
        /\ allTranslatedEntries' = allTranslatedEntries \o controller'[1].value
        /\ Len(emitted') > Len(emitted)
        /\ SubSeq(emitted', 1, Len(emitted)) = emitted
        /\ emitted'[Len(emitted) + 1] =
               [completedBatches |-> i + 1,
                translatedEntries |-> allTranslatedEntries',
                failed |-> FALSE,
                totalBatches |-> Len(batches),
                progressBefore |-> completedEntries]
        /\ lastCallBatch' = lastCallBatch
        /\ pc' \in {"batchDelay", "idle"}]_vars

\* batch 2 of 3 completed: checkpoint written, progress reported after it
C21_Witness ==
    /\ pc = "batchDelay"
    /\ i = 1
    /\ emitted # << >>
    /\ Last(emitted).completedBatches = 2
    /\ ~Last(emitted).failed
    /\ Last(emitted).translatedEntries = allTranslatedEntries
    /\ completedEntries > Last(emitted).progressBefore

\* the last n elements of seq, all of it when it is shorter
lastEntries(seq, n) == SubSeq(seq, Len(seq) - Min(n, Len(seq)) + 1, Len(seq))

\* C22: the reply to the translate call of a batch is the reply to a prompt
\* built with the last three entries (all, when fewer) of the running result
\* as the batch found it; the first batch of a fresh run gets no translated
\* context.
C22_RollingContext ==
    /\ (controller # << >> /\ controller[1].status = "returned"
            /\ lastCallBatch >= 0 /\ lastCallBatch < Len(batches)) =>
           controller[1].value =
               translateBatch(batches[lastCallBatch + 1], lastEntries(atStart, 3))
    /\ (pc = "call" /\ resumedFrom = << >> /\ i = 0) =>
           /\ atStart = << >>
           /\ translatedContextOf(allTranslatedEntries) = << >>

\* the third batch of a run: three translations of the second batch were
\* in its prompt
C22_Witness ==
    /\ controller # << >>
    /\ controller[1].status = "returned"
    /\ lastCallBatch = 2
    /\ Len(atStart) = 20
    /\ Len(controller[1].value[1].text.ctx) = 3
    /\ controller[1].value[1].text.ctx[3].translation = << atStart[20].text >>

\* C23: the translate call of batch i + 1 starts out of one inter-batch
\* delay of BATCH_DELAY that the completion of batch i started; the delay is
\* entered from a resolved call only and left for the next call or the end
\* of the run only; after the last batch there is no delay, the run ends in
\* the step in which the call resolves, and it returns when the batch's
\* checkpoint callback returned.
C23_OneDelayBetweenBatches ==
    /\ [][(callStarts /\ pc # "idle" /\ lastCallBatch' = lastCallBatch + 1) =>
            /\ pc = "batchDelay"
            /\ timer = BATCH_DELAY
            /\ i' = i + 1]_vars
    /\ [][(pc' = "batchDelay" /\ pc # "batchDelay") =>
            /\ callResolved
            /\ i < Len(batches) - 1
            /\ i' = i
            /\ timer' = BATCH_DELAY]_vars
    /\ [][(pc = "batchDelay" /\ pc' # "batchDelay") =>
            pc' \in {"call", "idle"}]_vars
    /\ [][(callResolved /\ i = Len(batches) - 1) =>
            /\ pc' = "idle"
            /\ timer' = 0
            /\ (~Last(emitted').failed =>
                   /\ Returned'
                   /\ Last(emitted').completedBatches = Len(batches)
                   /\ completedEntries' = completedEntries + Len(batches[i + 1].entries))]_vars

\* a three-batch run that returned: two delays, none after the last batch
C23_Witness ==
    /\ Returned
    /\ Len(batches) = 3
    /\ startFromBatch = 0
    /\ lastCallBatch = 2
    /\ timer = 0

\* C24: for N entries and a batch size B from 10 to 100, createBatches
\* returns ceil(N / B) batches; batch i has index i, startIndex i * B,
\* endIndex min((i + 1) * B, N) and the entries at these offsets; no entries
\* give no batches.
C24_SegmentsPartition ==
    (segments # << >> /\ segmentSize \in MinBatchSize..MaxBatchSize) =>
        LET N == Len(segmentEntries)
            B == segmentSize
            made == segments[1]
        IN  /\ Len(made) = (N + B - 1) \div B
            /\ \A k \in 1..Len(made) :
                   /\ made[k].index = k - 1
                   /\ made[k].startIndex = (k - 1) * B
                   /\ made[k].endIndex = Min(k * B, N)
                   /\ made[k].entries =
                          SubSeq(segmentEntries, (k - 1) * B + 1, Min(k * B, N))
            /\ (N = 0 => made = << >>)

\* five batches, the last one short
C24_Witness ==
    /\ segments # << >>
    /\ Len(segmentEntries) = 105
    /\ segmentSize = 25
    /\ Len(segments[1]) = 5
    /\ Len(segments[1][5].entries) = 5

\* C25: contextEntries of a batch are the min(3, startIndex) entries just
\* before startIndex, in order, none of them an entry of the batch.
C25_ContextBeforeBatch ==
    segments # << >> =>
        \A k \in 1..Len(segments[1]) :
            LET b == segments[1][k]
                n == Min(3, b.startIndex)
            IN  /\ Len(b.contextEntries) = n
                /\ b.contextEntries =
                       SubSeq(segmentEntries, b.startIndex - n + 1, b.startIndex)
                /\ \A c \in 1..Len(b.contextEntries) : \A e \in 1..Len(b.entries) :
                       b.contextEntries[c].index # b.entries[e].index

C25_Witness ==
    /\ segments # << >>
    /\ Len(segments[1]) >= 2
    /\ Len(segments[1][1].contextEntries) = 0
    /\ Len(segments[1][2].contextEntries) = 3
    /\ segments[1][2].contextEntries[3].index = segments[1][2].startIndex

\* C26: a requested size below 10 gives the batches of size 10, one above
\* 100 those of size 100: every batch but the last has the clamped size, the
\* last has from 1 up to the clamped size.
C26_ClampedSize ==
    (segments # << >> /\ segmentSize \notin MinBatchSize..MaxBatchSize) =>
        LET clamped == IF segmentSize < 10 THEN 10 ELSE 100
            made == segments[1]
        IN  /\ made = createBatches(segmentEntries, clamped)
            /\ \A k \in 1..Len(made) :
                   IF k < Len(made)
                   THEN Len(made[k].entries) = clamped
                   ELSE Len(made[k].entries) \in 1..clamped

C26_Witness ==
    /\ segments # << >>
    /\ segmentSize = 150
    /\ Len(segmentEntries) = 101
    /\ Len(segments[1]) = 2
    /\ Len(segments[1][2].entries) = 1

\* the blocks of the response that give an entry: those that are not blank,
\* among as many leading blocks as there are originals
usableSegments ==
    Cardinality({j \in 1..Min(Len(split(response)), Len(originalEntries)) :
                    trim(split(response)[j]) # << >>})

\* C27: the positions of parseAPIResponse's result beyond the number of
\* usable blocks hold the original entry of the same position, text
\* included; the empty response gives back the originals.
C27_PaddedWithOriginals ==
    parsed # << >> =>
        /\ Len(parsed[1]) = Len(originalEntries)
        /\ \A k \in (usableSegments + 1)..Len(originalEntries) :
               parsed[1][k] = originalEntries[k]
        /\ (response = << >> => parsed[1] = originalEntries)

\* one block for three originals: the second and third are padded
C27_Witness ==
    /\ parsed # << >>
    /\ Len(originalEntries) = 3
    /\ usableSegments = 1
    /\ parsed[1][1].text = << "x" >>
    /\ parsed[1][2].text = originalEntries[2].text
    /\ parsed[1][3].text = originalEntries[3].text

\* C28: parseAPIResponse applied to formatEntriesForAPI's rendering of
\* entries whose texts are trimmed and have no separator line gives back
\* these entries, texts included.
C28_RoundTrip ==
    (parsed # << >> /\ response = formatEntriesForAPI(originalEntries)) =>
        parsed[1] = originalEntries

\* three entries: an empty text, one of two lines that begins with a marker,
\* one that begins with dashes
C28_Witness ==
    /\ parsed # << >>
    /\ response = formatEntriesForAPI(originalEntries)
    /\ Len(originalEntries) = 3
    /\ originalEntries[1].text = << >>
    /\ originalEntries[2].text = << "lb", "dg", "rb", "nl", "x" >>
    /\ originalEntries[3].text = << "dash", "dash", "dash", "x" >>
    /\ Len(split(response)) = 3

\* C29: with localStorage failing at any moment, a resolved call is still
\* followed by its append and by the delay or the return of the run (the
\* file being loaded), no run fails with the storage's error, the calls
\* keep their order, and a fresh run returns the result of the
\* uninterrupted run.
C29_StorageFailureIsHarmless ==
    /\ [][(callResolved /\ file # NoFile) =>
            /\ allTranslatedEntries' = allTranslatedEntries \o controller'[1].value
            /\ pc' \in {"batchDelay", "idle"}
            /\ (pc' = "idle" => Returned')
            /\ Len(emitted') = Len(emitted) + 1]_vars
    /\ [][callStarts =>
            IF pc = "idle"
            THEN lastCallBatch' = startFromBatch'
            ELSE lastCallBatch' \in {lastCallBatch, lastCallBatch + 1}]_vars
    /\ [](Failed /\ outcome.error # << >> =>
            outcome.error[1] \in {CancelledError, NullDereference, RateLimitError,
                                  ServerError})
    /\ [](Returned /\ resumedFrom = << >> =>
            allTranslatedEntries = uninterruptedFrom(batches, 1, << >>))

\* two batches completed and neither checkpoint stored
C29_Witness ==
    /\ ~storageWorks
    /\ storage = << >>
    /\ pc = "batchDelay"
    /\ i = 1
    /\ Len(emitted) = 2
    /\ ~Last(emitted).failed
    /\ Len(allTranslatedEntries) = 20

\* C30: a run seeded with a checkpoint whose completedBatches exceeds the
\* number of batches does not return.
C30_ResumeBeyondBatchesRejected ==
    (Returned /\ resumedFrom # << >>) =>
        resumedFrom[1].completedBatches <= Len(batches)

\* a step in which startTranslation is entered with a checkpoint
resumeStarts ==
    /\ ~isTranslating
    /\ resumedFrom' # << >>
    /\ (isTranslating' \/ resumedFrom' # resumedFrom)

failureCheckpointStored ==
    /\ Failed
    /\ pc = "idle"
    /\ file # NoFile
    /\ emitted # << >>
    /\ Last(emitted).failed
    /\ storage # << >>
    /\ storage[1].failed
    /\ storage[1].fileName = file
    /\ storage[1].completedBatches = Last(emitted).completedBatches
    /\ storage[1].translatedEntries = Last(emitted).translatedEntries

\* C32: while the checkpoint of a failed run is stored and its file is
\* loaded, the resume banner is shown, whatever batch the run failed in.
C32_ResumeOfferedAfterFailure == failureCheckpointStored => resumeBanner

RECURSIVE entriesOfBatches(_, _)
\* the entries of the first k batches, in order
entriesOfBatches(bs, k) ==
    IF k = 0 THEN << >> ELSE entriesOfBatches(bs, k - 1) \o bs[k].entries

\* result carries, position by position, the index and times of originals
alignedWith(result, originals) ==
    /\ Len(result) = Len(originals)
    /\ \A k \in 1..Len(result) :
          /\ result[k].index = originals[k].index
          /\ result[k].startTime = originals[k].startTime
          /\ result[k].endTime = originals[k].endTime

\* C33: a run that has returned holds totalEntries entries, entry k with the
\* index and times of original entry k, and the stored checkpoint is gone.
C33_CompleteResultThenCleared ==
    Returned =>
        /\ Len(allTranslatedEntries) = getBatchStats(batches).totalEntries
        /\ alignedWith(allTranslatedEntries, entriesOfBatches(batches, Len(batches)))
        /\ storage = << >>

\* C34: while a run is in progress the count the progress callback has shown
\* last is the length of the running result and at most totalEntries.
C34_ProgressCountIsResultLength ==
    pc # "idle" =>
        /\ completedEntries = Len(allTranslatedEntries)
        /\ completedEntries <= getBatchStats(batches).totalEntries

\* C35: for the second batch of a fresh run, the translated context (the
\* last three of the running result, here the parsed reply of the first
\* batch) has the length of the batch's contextEntries, and position j of
\* the one has the index of position j of the other.
C35_ContextPairedByIndex ==
    (segments # << >> /\ parsed # << >> /\ Len(segments[1]) >= 2) =>
        LET translatedContext == translatedContextOf(parsed[1])
            contextEntries == segments[1][2].contextEntries
        IN  /\ Len(translatedContext) = Len(contextEntries)
            /\ \A j \in 1..Len(contextEntries) :
                  j <= Len(translatedContext) =>
                      translatedContext[j].index = contextEntries[j].index

\* C36: a run never makes more than (N - startFromBatch) * (maxRetries + 1)
\* translate calls, and a run in progress eventually ends (returned or
\* failed) when every call is answered and every timer fires.
C36_RunTerminates ==
    /\ [](pc # "idle" =>
            callsOfRun <= (Len(batches) - startFromBatch) * (maxRetries + 1))
    /\ [](callsMade <= maxRetries + 1)
    /\ (pc # "idle") ~> (pc = "idle" /\ (Returned \/ Failed))

\* a run that used every attempt of each of its three batches but the last
\* call, which succeeded
C36_Witness ==
    /\ Returned
    /\ Len(batches) = 3
    /\ startFromBatch = 0
    /\ callsOfRun = 3 * (maxRetries + 1)

\* C37: while a run is in progress the Escape handler accepts the key: the
\* app is marked as translating and holds an abort controller.
C37_EscapeReachesEveryRun ==
    activeRuns > 0 => (isTranslating /\ abortController # "null")

\* the indices of the entries of the batch at 0-based position b
indicesOfBatch(b) == {batches[b + 1].entries[k].index : k \in 1..Len(batches[b + 1].entries)}

\* C38: a checkpoint emitted with failed = true for batch i holds no entry
\* of batch i.
C38_FailureCheckpointExcludesBatch ==
    \A k \in 1..Len(emitted) :
        (emitted[k].failed /\ emitted[k].completedBatches < Len(batches)) =>
            \A j \in 1..Len(emitted[k].translatedEntries) :
                emitted[k].translatedEntries[j].index
                    \notin indicesOfBatch(emitted[k].completedBatches)

\* translated is original but for its text
differsOnlyInText(translated, original) ==
    /\ translated.index = original.index
    /\ translated.startTime = original.startTime
    /\ translated.endTime = original.endTime

\* C39: no step taken while a run is in progress changes the run's batches,
\* which stay createBatches of the original entries of a file, and every
\* entry of the running result is an original entry of a batch but for its
\* text.
C39_OriginalsUntouched ==
    /\ [][pc # "idle" => batches' = batches]_vars
    /\ [](outcome.status # "none" =>
            /\ \E f \in FileNames : batches = createBatches(entriesOf(f), batchSize)
            /\ \A k \in 1..Len(allTranslatedEntries) :
                  \E b \in 1..Len(batches) :
                      \E j \in 1..Len(batches[b].entries) :
                          differsOnlyInText(allTranslatedEntries[k],
                                            batches[b].entries[j]))

\* a resumed run in its second attempt at a batch, its first batch done
C39_Witness ==
    /\ pc = "call"
    /\ resumedFrom # << >>
    /\ failures > 0
    /\ i > startFromBatch
    /\ Len(allTranslatedEntries) > Len(resumedFrom[1].translatedEntries)

\* C40: when the call of 0-based attempt a is rejected and a wait follows,
\* the timer started lasts from 15000 * 2^a to 15000 * 2^a + 2000 ms, and
\* onWaiting has been invoked, by the time the wait is pending, with the
\* timer's duration rounded to whole seconds, a + 1 and maxRetries.
C40_BackoffDelayAndNotice ==
    /\ [][(pc = "call" /\ pc' = "backoff") =>
            /\ attempt < maxRetries
            /\ attempt' = attempt
            /\ timer' >= baseDelay * Pow2(attempt)
            /\ timer' <= baseDelay * Pow2(attempt) + jitterRange
            /\ waitCount' = waitCount + 1
            /\ lastWaiting' # << >>
            /\ lastWaiting'[1].attempt = attempt + 1
            /\ lastWaiting'[1].maxRetries = maxRetries]_vars
    /\ [](pc = "backoff" =>
            /\ lastWaiting # << >>
            /\ 1000 * lastWaiting[1].waitSeconds - 500 <= timer
            /\ timer < 1000 * lastWaiting[1].waitSeconds + 500)

\* the wait after the fifth rejected call (attempt 4) with the jitter that
\* rounds up: 240000 + 500 ms, announced as 241 s
C40_Witness ==
    /\ pc = "backoff"
    /\ attempt = maxRetries - 1
    /\ timer = baseDelay * Pow2(maxRetries - 1) + 500
    /\ lastWaiting # << >>
    /\ lastWaiting[1].waitSeconds = 241
    /\ lastWaiting[1].attempt = maxRetries
====
